---- MODULE Spec2Model ----
(***************************************************************************)
(* The tool-orchestration loop of the MCP chatbot: the HTTP server         *)
(* (src/main.py: lifespan, chat, handle_query), the command-line client    *)
(* (src/client.py: main, process_query) and the web_search tool of the     *)
(* tool host (src/server.py).                                              *)
(*                                                                         *)
(* A Python str is a sequence of chunks (so that concatenation and         *)
(* f-strings are Sequences' \o); an Optional[str] is a record              *)
(* [none, s].  One action is the code that runs between two awaits of a    *)
(* coroutine: asyncio runs that code without interleaving.                 *)
(***************************************************************************)
EXTENDS Naturals, Sequences, FiniteSets, TLC

\* The largest number of tool calls one decision of the completion service carries.
MaxCalls == 2

\* "max_results": 4 in the payload web_search sends to the search provider.
max_results == 4

\* "return top 3 results with sources": what web_search's docstring and the
\* header of its summary announce.
TopResults == 3

\* The requests that arrive (POST /chat, or one line typed at the CLI prompt).
Queries == {"q1", "q2"}

VARIABLES
    entry,        \* "http" (main.py) or "cli" (client.py): the program that runs
    phase,        \* where the process is in its life: loaded .. serving .. closed
    session,      \* the module global `session`: "None" or "ClientSession"
    exit_stack,   \* the module global `exit_stack`: the contexts entered, in order
    released,     \* the contexts exit_stack.aclose() has exited, in order
    pc,           \* per query: the await its coroutine is suspended at
    tools,        \* per query: the local `tools`
    assistant_msg,\* per query: the local `assistant_msg` (the decision)
    messages,     \* per query: the local `messages`
    idx,          \* per query: the position of `tool_call` in the for loop
    raised,       \* per query: the exception that left the body, and where it rose
    result,       \* per query: what chat / process_query gave back
    listed,       \* per query: the session.list_tools() requests it sent
    completions,  \* per query: the requests it sent to the completion service
    invoked,      \* per query: the session.call_tool() requests it sent
    replies,      \* per query: what the tool host answered to each of them
    final_response\* per query: the local `final_response` (the second completion's message)

vars == <<entry, phase, session, exit_stack, released, pc, tools, assistant_msg,
          messages, idx, raised, result, listed, completions, invoked, replies,
          final_response>>

----------------------------------------------------------------------------
\* Python values

None == [none |-> TRUE, s |-> <<>>]

Str(s) == [none |-> FALSE, s |-> s]

\* `x or ""` for an Optional[str] x (None and "" are both falsy).
OrEmpty(x) == IF x.none \/ x.s = <<>> THEN <<>> ELSE x.s

\* f"{x}" for an Optional[str] x: str(None) is "None".
Format(x) == IF x.none THEN <<"None">> ELSE x.s

\* raise T(msg); str(e) is msg.
Exc(type, msg) == [type |-> type, msg |-> msg]

StrOfException(e) == e.msg

NoException == Exc("", <<>>)

SessionNotInitialized == Exc("RuntimeError", <<"Session not initialized">>)

\* x[0] on an empty list.
IndexError == Exc("IndexError", <<"list index out of range">>)

\* x.text on a content segment that has no text field (an image, a resource).
AttributeError == Exc("AttributeError", <<"object has no attribute 'text'">>)

\* What json.loads raises on a string that is not JSON.
JSONDecodeError == Exc("JSONDecodeError", <<"Expecting value">>)

\* What the MCP client session raises when a request to the tool host fails.
McpError == Exc("McpError", <<"tool host request failed">>)

\* What the Groq client raises when a completion request fails.
APIError == Exc("APIError", <<"completion request failed">>)

----------------------------------------------------------------------------
\* The tool host (src/server.py)

SearchHeader == "Here's a summary based on the top 3 search results:"

SearchFooter == "This answer is based on real-time Tavily search results."

\* One numbered entry of the summary: f"{i}. **{title}**\n{snippet}\n[Source]({link})\n\n".
SearchItem(i) == <<"item", ToString(i)>>

RECURSIVE SearchItems(_)
SearchItems(n) == IF n = 0 THEN <<>> ELSE SearchItems(n - 1) \o SearchItem(n)

\* What the search provider does with one request: the request fails (a network
\* error, an HTTP error status), or it answers with at most max_results results.
ProviderResponses ==
    {[raises |-> TRUE, results |-> 0]} \cup
    {[raises |-> FALSE, results |-> n] : n \in 0..max_results}

\* web_search(query): the text the tool returns.
WebSearch(resp) ==
    IF resp.raises
    THEN <<"Error during search: ", "provider request failed">>
    ELSE IF resp.results = 0
    THEN <<"No results found.">>
    ELSE <<SearchHeader>> \o SearchItems(resp.results) \o <<SearchFooter>>

\* The one tool the host lists.
ToolDescriptors ==
    <<[name |-> "web_search",
       description |-> "Use Tavily to perform a web search and return top 3 results with sources.",
       inputSchema |-> "{query: string}"]>>

----------------------------------------------------------------------------
\* The completion service and what it is sent

\* get_mcp_tools: a tool descriptor in the completion service's declaration shape.
Declaration(tool) ==
    [type |-> "function",
     function |-> [name |-> tool.name,
                   description |-> tool.description,
                   parameters |-> tool.inputSchema]]

Declarations(descriptors) ==
    [k \in 1..Len(descriptors) |-> Declaration(descriptors[k])]

\* The arguments strings a tool call may carry: a JSON object, JSON that is not
\* an object, and a string that is not JSON.
ArgsObject == "{\"query\": \"latest AI news\"}"

ArgsNull == "null"

ArgsMalformed == "{\"query\": "

ArgStrings == {ArgsObject, ArgsNull, ArgsMalformed}

\* json.loads(s): raises on what is not JSON, and returns the value of any JSON
\* text, an object or not.
JsonLoads(s) ==
    CASE s = ArgsObject -> [raises |-> FALSE, value |-> [type |-> "dict", query |-> "latest AI news"]]
      [] s = ArgsNull -> [raises |-> FALSE, value |-> [type |-> "NoneType"]]
      [] OTHER -> [raises |-> TRUE, value |-> [type |-> "NoneType"]]

\* The ids the completion service gives the tool calls of one decision: opaque,
\* and distinct within the decision.
CallIds == {"call_" \o ToString(k) : k \in 1..MaxCalls}

ToolCall(id, args) ==
    [id |-> id, function |-> [name |-> "web_search", arguments |-> args]]

IsInjective(f) == \A a, b \in DOMAIN f : f[a] = f[b] => a = b

ToolCallLists ==
    UNION {{l \in [1..n -> {ToolCall(id, a) : id \in CallIds, a \in ArgStrings}] :
               IsInjective([k \in 1..n |-> l[k].id])} : n \in 0..MaxCalls}

\* The content a completion may carry: null, or a text.
DecisionContents == {None, Str(<<"Paris.">>)}

FinalContents == {None, Str(<<"elaborated text">>)}

\* response.choices[0].message of the first completion; tool_calls is an
\* Optional[list].
Decisions ==
    {[content |-> c, tool_calls |-> [none |-> FALSE, list |-> l]] :
        c \in DecisionContents, l \in ToolCallLists} \cup
    {[content |-> c, tool_calls |-> [none |-> TRUE, list |-> <<>>]] :
        c \in DecisionContents}

\* The local assistant_msg before it is assigned.
NoDecision == [unbound |-> TRUE]

\* final_response.choices[0].message of the second completion: a content, and
\* whatever tool calls the service put into it although tool_choice was "none".
FinalResponses ==
    {[content |-> c, tool_calls |-> tc] :
        c \in FinalContents,
        tc \in {[none |-> TRUE, list |-> <<>>],
                [none |-> FALSE, list |-> <<ToolCall("call_1", ArgsObject)>>]}}

\* The local final_response before it is assigned.
NoResponse == [unassigned |-> TRUE]

\* Truthy as `is not None`: an empty list passes.
Truthy_IsNotNone(tool_calls) == ~tool_calls.none

\* `if assistant_msg.tool_calls:` - None and the empty list are falsy.
Truthy(tool_calls) == ~tool_calls.none /\ tool_calls.list # <<>>

\* QueryText that is the text of one query whatever the request.
QueryText_Shared(q) == <<"query of ", "q1">>

\* The text of the query request q carries.
QueryText(q) == <<"query of ", q>>

UserMsg(text) == [role |-> "user", content |-> Str(text)]

\* CleanMsg that never copies the tool calls.
CleanMsg_NoToolCalls(msg) == [role |-> "assistant", content |-> msg.content]

\* clean_msg: role and content, and the key tool_calls only when there are any.
CleanMsg(msg) ==
    IF Truthy(msg.tool_calls)
    THEN [role |-> "assistant", content |-> msg.content, tool_calls |-> msg.tool_calls.list]
    ELSE [role |-> "assistant", content |-> msg.content]

\* ToolMsg that takes the function's name for the id.
ToolMsg_NameAsId(tool_call, text) ==
    [role |-> "tool", tool_call_id |-> tool_call.function.name, content |-> Str(text)]

ToolMsg(tool_call, text) ==
    [role |-> "tool", tool_call_id |-> tool_call.id, content |-> Str(text)]

\* The synthetic user message that precedes the second completion.
ElaborationPrompt(e) ==
    IF e = "http"
    THEN <<"Please explain the answer in more detail using the sources.">>
    ELSE <<"Please explain the answer in more detail using the sources, and include citations where possible.">>

\* groq_client.chat.completions.create(model, messages, tools, tool_choice)
CompletionRequest(msgs, decls, choice) ==
    [model |-> "gemma2-9b-it", messages |-> msgs, tools |-> decls, tool_choice |-> choice]

----------------------------------------------------------------------------
\* What a query gives back

NoResult == [kind |-> "none"]

\* Answer with the flag of the other branch (and the other marker line).
Answer_FlagInverted(e, content, used) ==
    IF e = "http"
    THEN [kind |-> "ChatResponse", response |-> OrEmpty(content), tool_used |-> ~used]
    ELSE [kind |-> "str",
          text |-> <<IF used THEN "(No tool used)\n\n" ELSE "(Used tool)\n\n">> \o Format(content)]

\* main.py: ChatResponse(response=content or "", tool_used=...);
\* client.py: the content after a marker line (written here without its emoji).
Answer(e, content, used) ==
    IF e = "http"
    THEN [kind |-> "ChatResponse", response |-> OrEmpty(content), tool_used |-> used]
    ELSE [kind |-> "str",
          text |-> <<IF used THEN "(Used tool)\n\n" ELSE "(No tool used)\n\n">> \o Format(content)]

\* Failure that falls back to an answer made of the exception's text.
Failure_AsAnswer(e, exc) ==
    IF e = "http"
    THEN [kind |-> "ChatResponse", response |-> StrOfException(exc), tool_used |-> FALSE]
    ELSE [kind |-> "str", text |-> <<"(No tool used)\n\n">> \o StrOfException(exc)]

\* main.py, chat: except Exception as e: raise HTTPException(500, detail=str(e));
\* client.py, process_query: except Exception as e: return f"Error processing query: {str(e)}".
Failure(e, exc) ==
    IF e = "http"
    THEN [kind |-> "HTTPException", status_code |-> 500, detail |-> StrOfException(exc)]
    ELSE [kind |-> "str", text |-> <<"Error processing query: ">> \o StrOfException(exc)]

----------------------------------------------------------------------------
\* The state after the module is imported

Init ==
    /\ entry \in {"http", "cli"}
    /\ phase = "loaded"
    /\ session = "None"
    /\ exit_stack = <<>>
    /\ released = <<>>
    /\ pc = [q \in Queries |-> "idle"]
    /\ tools = [q \in Queries |-> <<>>]
    /\ assistant_msg = [q \in Queries |-> NoDecision]
    /\ messages = [q \in Queries |-> <<>>]
    /\ idx = [q \in Queries |-> 0]
    /\ raised = [q \in Queries |-> [at |-> "", exc |-> NoException]]
    /\ result = [q \in Queries |-> NoResult]
    /\ listed = [q \in Queries |-> 0]
    /\ completions = [q \in Queries |-> <<>>]
    /\ invoked = [q \in Queries |-> <<>>]
    /\ replies = [q \in Queries |-> <<>>]
    /\ final_response = [q \in Queries |-> NoResponse]

queryVars == <<pc, tools, assistant_msg, messages, idx, raised, result, listed,
               completions, invoked, replies, final_response>>

\* A query is running: its coroutine is suspended at an await.
Running(q) == pc[q] \notin {"idle", "done"}

Reverse(s) == [k \in 1..Len(s) |-> s[Len(s) + 1 - k]]

\* exit_stack.aclose(): the contexts entered are exited, last entered first.
AClose ==
    /\ released' = released \o Reverse(exit_stack)
    /\ exit_stack' = <<>>

\* An exception leaves connect_to_mcp_server / connect_to_server.  main.py's
\* lifespan has no handler: the exception leaves it and the exit stack is as it
\* was.  client.py's main prints it and its finally clause closes the exit stack.
ConnectFailed ==
    /\ phase' = "failed"
    /\ IF entry = "cli" THEN AClose ELSE UNCHANGED <<exit_stack, released>>

\* lifespan / main start connecting: `await exit_stack.enter_async_context(
\* stdio_client(server_params))` spawns the tool host.
ConnectSpawn ==
    /\ phase = "loaded"
    /\ \A q \in Queries : pc[q] = "idle"
    /\ \/ /\ exit_stack' = Append(exit_stack, "stdio_client")
          /\ phase' = "spawned"
          /\ UNCHANGED released
       \/ ConnectFailed
    /\ UNCHANGED <<entry, session>>
    /\ UNCHANGED queryVars

\* `session = await exit_stack.enter_async_context(ClientSession(stdio, write))`
ConnectEnterSession ==
    /\ phase = "spawned"
    /\ \/ /\ exit_stack' = Append(exit_stack, "ClientSession")
          /\ session' = "ClientSession"
          /\ phase' = "entered"
          /\ UNCHANGED released
       \/ /\ ConnectFailed
          /\ UNCHANGED session
    /\ UNCHANGED entry
    /\ UNCHANGED queryVars

\* `await session.initialize()`
ConnectInitialize ==
    /\ phase = "entered"
    /\ \/ /\ phase' = "initialized"
          /\ UNCHANGED <<exit_stack, released>>
       \/ ConnectFailed
    /\ UNCHANGED <<entry, session>>
    /\ UNCHANGED queryVars

\* `tools = await session.list_tools()`, the tools are printed and the
\* connection is made: lifespan yields, main enters its input loop.
ConnectListTools ==
    /\ phase = "initialized"
    /\ \/ /\ phase' = "serving"
          /\ UNCHANGED <<exit_stack, released>>
       \/ ConnectFailed
    /\ UNCHANGED <<entry, session>>
    /\ UNCHANGED queryVars

\* Shutdown that leaves the exit stack as it is.
Shutdown_NoClose ==
    /\ phase = "serving"
    /\ \A q \in Queries : ~Running(q)
    /\ phase' = "closed"
    /\ UNCHANGED <<entry, session, exit_stack, released>>
    /\ UNCHANGED queryVars

\* The server shuts down (lifespan resumes after its yield), or the user types
\* `exit` (main leaves its loop and runs its finally clause).
Shutdown ==
    /\ phase = "serving"
    /\ \A q \in Queries : ~Running(q)
    /\ AClose
    /\ phase' = "closed"
    /\ UNCHANGED <<entry, session>>
    /\ UNCHANGED queryVars

----------------------------------------------------------------------------
\* What the tool host answers to session.call_tool

TextSegment(text) == [type |-> "text", text |-> text]

ImageSegment == [type |-> "image"]

\* The request raises (the transport or the protocol fails), or a result comes
\* back: a list of content segments.  `search` records what happened inside the
\* tool: its search request was answered ("ok"), failed ("failed"), or the tool
\* function did not run ("not_run").
HostRaises == [raises |-> TRUE, isError |-> FALSE, content |-> <<>>, search |-> "not_run"]

HostResult(content, isError, search) ==
    [raises |-> FALSE, isError |-> isError, content |-> content, search |-> search]

\* web_search(query: str) runs when the arguments are a map; the host answers
\* other arguments itself, with an error result.  A host may also answer with
\* no segment, with a first segment that carries no text, or with a text
\* segment after one that carries none.
HostReplies(request, providers) ==
    {HostRaises} \cup
    (IF request.arguments.type = "dict"
     THEN {HostResult(<<TextSegment(WebSearch(resp))>>, FALSE,
                      IF resp.raises THEN "failed" ELSE "ok") : resp \in providers}
          \cup {HostResult(<<>>, FALSE, "not_run"),
                HostResult(<<ImageSegment>>, FALSE, "not_run"),
                HostResult(<<ImageSegment, TextSegment(<<"caption">>)>>, FALSE, "not_run")}
     ELSE {HostResult(<<TextSegment(<<"Error executing tool web_search">>)>>, TRUE, "not_run")})

\* tool_response.content[0].text
FirstText(reply) ==
    IF reply.content = <<>>
    THEN [raises |-> TRUE, exc |-> IndexError, text |-> <<>>]
    ELSE IF reply.content[1].type # "text"
    THEN [raises |-> TRUE, exc |-> AttributeError, text |-> <<>>]
    ELSE [raises |-> FALSE, exc |-> NoException, text |-> reply.content[1].text]

----------------------------------------------------------------------------
\* handle_query (main.py) under chat, and process_query (client.py)

\* Raise that starts the query over instead of giving up.
Raise_Retry(q, at, exc) ==
    /\ pc' = [pc EXCEPT ![q] = "idle"]
    /\ UNCHANGED <<raised, result>>

\* The exception exc rises at `at` in the body of query q and leaves it: chat /
\* process_query catch it.
Raise(q, at, exc) ==
    /\ raised' = [raised EXCEPT ![q] = [at |-> at, exc |-> exc]]
    /\ result' = [result EXCEPT ![q] = Failure(entry, exc)]
    /\ pc' = [pc EXCEPT ![q] = "done"]

\* `return ChatResponse(...)` / `return f"..."`
Return(q, content, used) ==
    /\ result' = [result EXCEPT ![q] = Answer(entry, content, used)]
    /\ pc' = [pc EXCEPT ![q] = "done"]
    /\ UNCHANGED raised

\* SessionMissing without the test.
SessionMissing_Never == FALSE

\* `if not session:`
SessionMissing == session = "None"

\* The arguments session.call_tool is given for tool_call.
CallToolRequest(tool_call) ==
    [name |-> tool_call.function.name,
     arguments |-> JsonLoads(tool_call.function.arguments).value]

\* CurrentToolCall that stays at the first tool call of the decision.
CurrentToolCall_First(q) == assistant_msg[q].tool_calls.list[1]

\* The loop variable tool_call while query q awaits session.call_tool.
CurrentToolCall(q) == assistant_msg[q].tool_calls.list[idx[q]]

\* BeginToolCall that sends the k-th tool call and all that follow it at once.
BeginToolCall_Gather(q, calls, k) ==
    /\ invoked' = [invoked EXCEPT ![q] =
          @ \o [j \in 1..(Len(calls) - k + 1) |-> CallToolRequest(calls[k + j - 1])]]
    /\ idx' = [idx EXCEPT ![q] = k]
    /\ pc' = [pc EXCEPT ![q] = "call_tool"]
    /\ UNCHANGED <<raised, result>>

\* One pass of `for tool_call in assistant_msg.tool_calls:` up to its await, for
\* the k-th tool call: client.py checks the session, the arguments are decoded
\* and session.call_tool is awaited.
BeginToolCall(q, calls, k) ==
    IF entry = "cli" /\ SessionMissing
    THEN /\ Raise(q, "for tool_call", SessionNotInitialized)
         /\ UNCHANGED <<idx, invoked>>
    ELSE IF JsonLoads(calls[k].function.arguments).raises
    THEN /\ Raise(q, "json.loads", JSONDecodeError)
         /\ UNCHANGED <<idx, invoked>>
    ELSE /\ invoked' = [invoked EXCEPT ![q] = Append(@, CallToolRequest(calls[k]))]
         /\ idx' = [idx EXCEPT ![q] = k]
         /\ pc' = [pc EXCEPT ![q] = "call_tool"]
         /\ UNCHANGED <<raised, result>>

\* BeginConclusion that leaves the choice of tools to the service once more.
BeginConclusion_Auto(q, msgs) ==
    /\ completions' = [completions EXCEPT ![q] = Append(@, CompletionRequest(msgs, tools[q], "auto"))]
    /\ pc' = [pc EXCEPT ![q] = "conclusion"]
    /\ UNCHANGED <<raised, result, idx, invoked>>

\* After the loop: the elaboration prompt is appended and the second completion
\* is awaited, with tool_choice "none".
BeginConclusion(q, msgs) ==
    /\ completions' = [completions EXCEPT ![q] = Append(@, CompletionRequest(msgs, tools[q], "none"))]
    /\ pc' = [pc EXCEPT ![q] = "conclusion"]
    /\ UNCHANGED <<raised, result, idx, invoked>>

\* The body of `if assistant_msg.tool_calls:` from the k-th tool call on, with
\* msgs the messages so far: the next pass of the for loop, or what follows it.
ForLoop(q, calls, k, msgs) ==
    IF k <= Len(calls)
    THEN /\ messages' = [messages EXCEPT ![q] = msgs]
         /\ BeginToolCall(q, calls, k)
         /\ UNCHANGED completions
    ELSE /\ messages' = [messages EXCEPT ![q] = Append(msgs, UserMsg(ElaborationPrompt(entry)))]
         /\ BeginConclusion(q, messages'[q])

\* A query arrives and runs to its first await: get_mcp_tools raises when there
\* is no session, and awaits session.list_tools() otherwise.  The HTTP server
\* takes requests while others are running; the CLI reads its next line after
\* the last query has returned.  Queries arrive once the connection is made
\* ("serving"), or in a process that never connects ("loaded": the app served
\* without its lifespan, the function called from an importing module); none
\* arrives while the connection is being made, after it failed or after shutdown.
StartQuery(q) ==
    /\ pc[q] = "idle"
    /\ phase \in {"loaded", "serving"}
    /\ entry = "cli" => \A o \in Queries : ~Running(o)
    /\ IF SessionMissing
       THEN /\ Raise(q, "get_mcp_tools", SessionNotInitialized)
            /\ UNCHANGED listed
       ELSE /\ listed' = [listed EXCEPT ![q] = @ + 1]
            /\ pc' = [pc EXCEPT ![q] = "list_tools"]
            /\ UNCHANGED <<raised, result>>
    /\ UNCHANGED <<entry, phase, session, exit_stack, released>>
    /\ UNCHANGED <<tools, assistant_msg, messages, idx, completions, invoked, replies,
                   final_response>>

\* session.list_tools() returns or raises; get_mcp_tools translates the tools
\* and the first completion is awaited, with tool_choice "auto".
ListToolsReply(q) ==
    /\ pc[q] = "list_tools"
    /\ \/ /\ Raise(q, "list_tools", McpError)
          /\ UNCHANGED <<tools, completions>>
       \/ /\ tools' = [tools EXCEPT ![q] = Declarations(ToolDescriptors)]
          /\ completions' = [completions EXCEPT ![q] =
                Append(@, CompletionRequest(<<UserMsg(QueryText(q))>>, tools'[q], "auto"))]
          /\ pc' = [pc EXCEPT ![q] = "decision"]
          /\ UNCHANGED <<raised, result>>
    /\ UNCHANGED <<entry, phase, session, exit_stack, released>>
    /\ UNCHANGED <<assistant_msg, messages, idx, listed, invoked, replies, final_response>>

\* The first completion returns or raises (the request fails, or the response
\* has no choice): clean_msg and messages are built, and either the loop over
\* the tool calls starts or the decision's content is returned.
DecisionReply(q, decisions) ==
    /\ pc[q] = "decision"
    /\ \/ /\ \E exc \in {APIError, IndexError} : Raise(q, "decision", exc)
          /\ UNCHANGED <<assistant_msg, messages, idx, invoked, completions>>
       \/ \E msg \in decisions :
            /\ assistant_msg' = [assistant_msg EXCEPT ![q] = msg]
            /\ IF Truthy(msg.tool_calls)
               THEN ForLoop(q, msg.tool_calls.list, 1, <<UserMsg(QueryText(q)), CleanMsg(msg)>>)
               ELSE /\ messages' = [messages EXCEPT ![q] = <<UserMsg(QueryText(q)), CleanMsg(msg)>>]
                    /\ Return(q, msg.content, FALSE)
                    /\ UNCHANGED <<idx, invoked, completions>>
    /\ UNCHANGED <<entry, phase, session, exit_stack, released>>
    /\ UNCHANGED <<tools, listed, replies, final_response>>

\* session.call_tool returns or raises: the first text of the reply goes into a
\* tool message, and the loop goes on to the next tool call or ends.
ToolReply(q, providers) ==
    /\ pc[q] = "call_tool"
    /\ \E reply \in HostReplies(invoked[q][Len(invoked[q])], providers) :
        LET first == FirstText(reply)
        IN  /\ replies' = [replies EXCEPT ![q] = Append(@, reply)]
            /\ IF reply.raises
               THEN /\ Raise(q, "call_tool", McpError)
                    /\ UNCHANGED <<messages, idx, invoked, completions>>
               ELSE IF first.raises
               THEN /\ Raise(q, "content[0].text", first.exc)
                    /\ UNCHANGED <<messages, idx, invoked, completions>>
               ELSE ForLoop(q, assistant_msg[q].tool_calls.list, idx[q] + 1,
                            Append(messages[q], ToolMsg(CurrentToolCall(q), first.text)))
    /\ UNCHANGED <<entry, phase, session, exit_stack, released>>
    /\ UNCHANGED <<tools, assistant_msg, listed, final_response>>

\* The second completion returns or raises: the content of its message is the
\* answer, and nothing else of the message is read.
ConclusionReply(q, responses) ==
    /\ pc[q] = "conclusion"
    /\ \/ /\ \E exc \in {APIError, IndexError} : Raise(q, "conclusion", exc)
          /\ UNCHANGED final_response
       \/ \E msg \in responses :
            /\ final_response' = [final_response EXCEPT ![q] = msg]
            /\ Return(q, msg.content, TRUE)
    /\ UNCHANGED <<entry, phase, session, exit_stack, released>>
    /\ UNCHANGED <<tools, assistant_msg, messages, idx, listed, completions, invoked, replies>>

\* The steps of the process's life: connecting, and shutting down.
Lifecycle ==
    \/ ConnectSpawn
    \/ ConnectEnterSession
    \/ ConnectInitialize
    \/ ConnectListTools
    \/ Shutdown

\* One query, with everything the completion service, the tool host and the
\* search provider may answer.
OneQuery == {"q1"}

Next ==
    \/ Lifecycle
    \/ \E q \in OneQuery : StartQuery(q)
    \/ \E q \in OneQuery : ListToolsReply(q)
    \/ \E q \in OneQuery : DecisionReply(q, Decisions)
    \/ \E q \in OneQuery : ToolReply(q, ProviderResponses)
    \/ \E q \in OneQuery : ConclusionReply(q, FinalResponses)

Spec == Init /\ [][Next]_vars

\* Every query, the HTTP server's running concurrently, with the answers of the
\* services that matter to how queries interleave: decisions with tool calls
\* whose arguments decode, a search provider that answers in full.
ConcurrentDecisions ==
    {d \in Decisions :
        /\ d.content = Str(<<"Paris.">>)
        /\ \A k \in 1..Len(d.tool_calls.list) :
              d.tool_calls.list[k].function.arguments = ArgsObject}

ConcurrentProviderResponses == {[raises |-> FALSE, results |-> max_results]}

ConcurrentFinalContents == {Str(<<"elaborated text">>)}

ConcurrentFinalResponses ==
    {[content |-> c, tool_calls |-> [none |-> TRUE, list |-> <<>>]] : c \in ConcurrentFinalContents}

NextConcurrent ==
    \/ Lifecycle
    \/ \E q \in Queries : StartQuery(q)
    \/ \E q \in Queries : ListToolsReply(q)
    \/ \E q \in Queries : DecisionReply(q, ConcurrentDecisions)
    \/ \E q \in Queries : ToolReply(q, ConcurrentProviderResponses)
    \/ \E q \in Queries : ConclusionReply(q, ConcurrentFinalResponses)

SpecConcurrent == Init /\ [][NextConcurrent]_vars

----------------------------------------------------------------------------
\* Properties

Done(q) == pc[q] = "done"

\* Query q has received the decision of the first completion.
Decided(q) == assistant_msg[q] # NoDecision

ToolCalls(q) == assistant_msg[q].tool_calls.list

RequestsTools(q) == Decided(q) /\ ~assistant_msg[q].tool_calls.none /\ ToolCalls(q) # <<>>

ErrorPrefix == "Error processing query: "

IsFailure(r) ==
    \/ r.kind = "HTTPException"
    \/ r.kind = "str" /\ r.text[1] = ErrorPrefix

IsAnswer(r) ==
    \/ r.kind = "ChatResponse"
    \/ r.kind = "str" /\ r.text[1] # ErrorPrefix

\* The flag of an answer: the field tool_used, or the CLI's marker line.
ToolUsed(r) ==
    IF r.kind = "ChatResponse" THEN r.tool_used ELSE r.text[1] = "(Used tool)\n\n"

\* The reply is one the client can take a text from.
Usable(reply) ==
    /\ ~reply.raises
    /\ reply.content # <<>>
    /\ reply.content[1].type = "text"

AllSucceeded(q) ==
    /\ Len(replies[q]) = Len(ToolCalls(q))
    /\ \A k \in 1..Len(replies[q]) : Usable(replies[q][k])

ToolMessages(q) == SelectSeq(messages[q], LAMBDA m : m.role = "tool")

\* C1 as stated: whenever the decision carries no tool calls, the query returns
\* tool_used = false and a response equal to the decision's content verbatim,
\* in the HTTP server and in the CLI.
C1_VerbatimEverywhere ==
    \A q \in Queries :
        Done(q) /\ Decided(q) /\ ~RequestsTools(q) =>
            /\ result[q].kind = "ChatResponse"
            /\ result[q].tool_used = FALSE
            /\ Str(result[q].response) = assistant_msg[q].content

\* C1 amended: whenever the decision carries no tool calls, the HTTP server
\* returns tool_used = false and the decision's content as the response, the
\* empty string when the content is null; the CLI returns the content (the text
\* "None" when it is null) after the marker line "(No tool used)".
C1_NoToolAnswer ==
    \A q \in Queries :
        Done(q) /\ Decided(q) /\ ~RequestsTools(q) =>
            LET c == assistant_msg[q].content
            IN  IF entry = "http"
                THEN result[q] = [kind |-> "ChatResponse",
                                  response |-> IF c.none THEN <<>> ELSE c.s,
                                  tool_used |-> FALSE]
                ELSE result[q] = [kind |-> "str",
                                  text |-> <<"(No tool used)\n\n">> \o
                                           (IF c.none THEN <<"None">> ELSE c.s)]

C1_Witness ==
    \E q \in Queries :
        /\ Done(q) /\ Decided(q) /\ ~RequestsTools(q)
        /\ assistant_msg[q].content = Str(<<"Paris.">>)
        /\ result[q].kind = "ChatResponse"
        /\ result[q].response = <<"Paris.">>

\* C2: when the decision carries N >= 1 tool calls and all N invocations
\* succeed, the conversation holds exactly N tool messages, the i-th with the
\* id of the i-th tool call and the text of the reply to its invocation.
C2_ToolMessagesInOrder ==
    \A q \in Queries :
        RequestsTools(q) /\ AllSucceeded(q) =>
            /\ Len(ToolMessages(q)) = Len(ToolCalls(q))
            /\ \A k \in 1..Len(ToolCalls(q)) :
                  ToolMessages(q)[k] =
                      [role |-> "tool",
                       tool_call_id |-> ToolCalls(q)[k].id,
                       content |-> Str(replies[q][k].content[1].text)]

C2_Witness ==
    \E q \in Queries :
        /\ RequestsTools(q) /\ AllSucceeded(q)
        /\ Len(ToolCalls(q)) = 2
        /\ ToolCalls(q)[1].id = "call_2"
        /\ ToolCalls(q)[2].id = "call_1"
        /\ replies[q][1].content[1].text # replies[q][2].content[1].text
        /\ Len(ToolMessages(q)) = 2

\* C3: the conversation passed to the second completion is, in order, the user
\* message with the query, the assistant message with the decision's content
\* and tool calls, one tool message per tool call, and last the elaboration
\* prompt as a user message.
C3_ConclusionConversation ==
    \A q \in Queries :
        Len(completions[q]) >= 2 =>
            LET sent == completions[q][2].messages
                n == Len(ToolCalls(q))
            IN  /\ Len(sent) = n + 3
                /\ sent[1] = [role |-> "user", content |-> Str(QueryText(q))]
                /\ sent[2] = [role |-> "assistant",
                              content |-> assistant_msg[q].content,
                              tool_calls |-> ToolCalls(q)]
                /\ \A k \in 1..n :
                      /\ sent[2 + k].role = "tool"
                      /\ sent[2 + k].tool_call_id = ToolCalls(q)[k].id
                      /\ sent[2 + k].content = Str(replies[q][k].content[1].text)
                /\ sent[n + 3].role = "user"
                /\ sent[n + 3].content.s[1] \in
                      {"Please explain the answer in more detail using the sources.",
                       "Please explain the answer in more detail using the sources, and include citations where possible."}

C3_Witness ==
    \E q \in Queries :
        /\ Len(completions[q]) = 2
        /\ Len(ToolCalls(q)) = 2
        /\ Len(completions[q][2].messages) = 5

\* C4: an answer has tool_used = true exactly when the decision requested at
\* least one tool call and every requested call was sent to the tool host and
\* answered before the answer; a present but empty tool-call list gives
\* tool_used = false and no tool invocation.
C4_ToolUsedIffExecuted ==
    \A q \in Queries :
        /\ Done(q) /\ IsAnswer(result[q]) =>
              (ToolUsed(result[q]) <=>
                  /\ RequestsTools(q)
                  /\ Len(invoked[q]) = Len(ToolCalls(q))
                  /\ AllSucceeded(q))
        /\ Decided(q) /\ ~assistant_msg[q].tool_calls.none /\ ToolCalls(q) = <<>> =>
              /\ invoked[q] = <<>>
              /\ Done(q) /\ IsAnswer(result[q]) /\ ~ToolUsed(result[q])

C4_Witness ==
    \E q \in Queries :
        /\ Done(q)
        /\ result[q].kind = "ChatResponse"
        /\ result[q].tool_used
        /\ Len(ToolCalls(q)) = 2
        /\ Len(invoked[q]) = 2

\* The tool call failed: the request to the tool host raised, or the search
\* request of web_search failed.
ToolFailed(reply) == reply.raises \/ reply.search = "failed"

\* C5 as stated: when the invocation of any tool call fails, the tool-host call
\* itself or the search request of web_search, no second completion is
\* requested and the query ends in a failure.
C5_FailedToolAborts ==
    \A q \in Queries :
        (\E k \in 1..Len(replies[q]) : ToolFailed(replies[q][k])) =>
            /\ Len(completions[q]) < 2
            /\ Done(q) => IsFailure(result[q])

\* The text of a failure report: the detail of the HTTPException, or what
\* follows the CLI's error prefix.
Report(r) == IF r.kind = "HTTPException" THEN r.detail ELSE Tail(r.text)

\* C6: a query that arrives while there is no tool-host session fails with
\* "Session not initialized", and neither before nor with that failure is a
\* request sent to the completion service (or to the tool host).
C6_NoSessionFailsFirst ==
    \A q \in Queries :
        session = "None" =>
            /\ completions[q] = <<>>
            /\ listed[q] = 0
            /\ invoked[q] = <<>>
            /\ pc[q] # "idle" =>
                  /\ Done(q)
                  /\ IsFailure(result[q])
                  /\ Report(result[q]) = <<"Session not initialized">>

C6_Witness ==
    \E q \in Queries :
        /\ session = "None"
        /\ Done(q)
        /\ result[q] = [kind |-> "HTTPException", status_code |-> 500,
                        detail |-> <<"Session not initialized">>]

\* The arguments string does not hold a key/value map.
NotAMap(args) == JsonLoads(args).raises \/ JsonLoads(args).value.type # "dict"

\* C7 as stated: when the arguments string of the k-th tool call of the
\* decision does not parse as a key/value map, that call and the later ones are
\* never sent to the tool host, no second completion is requested and the
\* query ends in a failure.
C7_UndecodableAborts ==
    \A q \in Queries :
        Decided(q) =>
            \A k \in 1..Len(ToolCalls(q)) :
                NotAMap(ToolCalls(q)[k].function.arguments) =>
                    /\ Len(invoked[q]) < k
                    /\ Len(completions[q]) < 2
                    /\ Done(q) => IsFailure(result[q])

DecisionOnly(q) ==
    /\ IsAnswer(result[q]) /\ ~ToolUsed(result[q])
    /\ Decided(q) /\ ~RequestsTools(q)
    /\ Len(completions[q]) = 1
    /\ invoked[q] = <<>>
    /\ raised[q].at = ""

TwoPhase(q) ==
    /\ IsAnswer(result[q]) /\ ToolUsed(result[q])
    /\ RequestsTools(q)
    /\ Len(invoked[q]) = Len(ToolCalls(q))
    /\ AllSucceeded(q)
    /\ Len(completions[q]) = 2
    /\ raised[q].at = ""

Failed(q) == IsFailure(result[q]) /\ raised[q].at # ""

FailureCase(q) ==
    CASE raised[q].at \in {"get_mcp_tools", "for tool_call"} -> "session"
      [] raised[q].at \in {"json.loads", "call_tool", "content[0].text"} -> "tool"
      [] raised[q].at \in {"decision", "conclusion"} -> "completion"
      [] OTHER -> "other"

\* C9 as stated: every query gives back either {response, tool_used} or a
\* failure report, and the report identifies the case that occurred (no
\* session, a tool call failing to decode or execute, the completion service
\* erring): two failures of different cases never give the same report.
C9_ReportIdentifiesCase ==
    /\ \A q \in Queries :
          Done(q) => IsAnswer(result[q]) \/ IsFailure(result[q])
    /\ \A q, o \in Queries :
          /\ Done(q) /\ IsFailure(result[q]) /\ FailureCase(q) # "other"
          /\ Done(o) /\ IsFailure(result[o]) /\ FailureCase(o) # "other"
          /\ Report(result[q]) = Report(result[o])
          => FailureCase(q) = FailureCase(o)

\* The ids of the tool calls of q's decision that have no tool message yet.
Outstanding(q) ==
    {ToolCalls(q)[k].id : k \in 1..Len(ToolCalls(q))} \
    {ToolMessages(q)[k].tool_call_id : k \in 1..Len(ToolMessages(q))}

C10_Appended(q) ==
    \A k \in 1..Len(messages'[q]) :
        k > Len(messages[q]) /\ messages'[q][k].role = "tool" =>
            /\ RequestsTools(q)
            /\ messages'[q][k].tool_call_id \in Outstanding(q)

C10_OneToOne(q) ==
    /\ Len(ToolMessages(q)) <= (IF Decided(q) THEN Len(ToolCalls(q)) ELSE 0)
    /\ \A k \in 1..Len(ToolMessages(q)) :
          ToolMessages(q)[k].tool_call_id = ToolCalls(q)[k].id
    /\ IsInjective([k \in 1..Len(ToolMessages(q)) |-> ToolMessages(q)[k].tool_call_id])

InFlightCalls(q) == Len(invoked[q]) - Len(replies[q])

\* C11: the tool calls of a query are invoked one at a time and in the order of
\* the decision: the k-th request is for the k-th tool call, at most one request
\* has no reply, and a request is sent only after every earlier one was
\* answered and its tool message appended.
C11_OneToolCallAtATime ==
    \A q \in Queries :
        /\ Len(replies[q]) <= Len(invoked[q])
        /\ InFlightCalls(q) <= 1
        /\ InFlightCalls(q) = 1 <=> pc[q] = "call_tool"
        /\ Len(invoked[q]) <= Len(ToolMessages(q)) + 1
        /\ invoked[q] # <<>> => RequestsTools(q) /\ Len(invoked[q]) <= Len(ToolCalls(q))
        /\ \A k \in 1..Len(invoked[q]) :
              /\ invoked[q][k].name = ToolCalls(q)[k].function.name
              /\ invoked[q][k].arguments.type =
                    (IF ToolCalls(q)[k].function.arguments = ArgsObject
                     THEN "dict" ELSE "NoneType")
              /\ k < Len(invoked[q]) => Usable(replies[q][k])

C11_Witness ==
    \E q \in Queries :
        /\ pc[q] = "call_tool"
        /\ Len(invoked[q]) = 2
        /\ Len(replies[q]) = 1
        /\ Len(ToolMessages(q)) = 1
        /\ ToolCalls(q)[1].function.arguments = ArgsNull
        /\ ToolCalls(q)[2].function.arguments = ArgsObject

\* Query q has a request to the tool host in flight on the shared session: it
\* awaits session.list_tools() or session.call_tool().
OnSession(q) == pc[q] \in {"list_tools", "call_tool"}

\* C12 as stated: the shared tool-host session is protected from concurrent
\* use: never do two queries have a tool-host request in flight at once.
C12_SessionExclusive ==
    \A q, o \in Queries :
        q # o => ~(OnSession(q) /\ OnSession(o))

\* The module-level variables of main.py / client.py that outlive a query.
moduleVars == <<entry, phase, session, exit_stack, released>>

\* Everything query q holds.
QueryState(q) ==
    <<pc[q], tools[q], assistant_msg[q], messages[q], idx[q], raised[q], result[q],
      listed[q], completions[q], invoked[q], replies[q], final_response[q]>>

\* The conversation query q may send, made of what is q's own: the user message
\* with q's text, q's decision, a tool message for each of the first n replies q
\* received, and the elaboration prompt when `closing`.
OwnConversation(q, n, closing) ==
    <<[role |-> "user", content |-> Str(<<"query of ", q>>)]>>
    \o (IF Decided(q) THEN <<CleanMsg(assistant_msg[q])>> ELSE <<>>)
    \o [k \in 1..n |-> ToolMsg(ToolCalls(q)[k], replies[q][k].content[1].text)]
    \o (IF closing THEN <<UserMsg(ElaborationPrompt(entry))>> ELSE <<>>)

C13_OwnMessagesOnly ==
    \A q \in Queries :
        /\ Len(completions[q]) >= 1 =>
              completions[q][1].messages = <<[role |-> "user", content |-> Str(<<"query of ", q>>)]>>
        /\ Len(completions[q]) >= 2 =>
              /\ Len(replies[q]) = Len(ToolCalls(q))
              /\ completions[q][2].messages = OwnConversation(q, Len(replies[q]), TRUE)
        /\ Decided(q) /\ Len(completions[q]) < 2 =>
              \E n \in 0..Len(ToolMessages(q)) : messages[q] = OwnConversation(q, n, FALSE)

C13_QueryStepFrame ==
    /\ queryVars' # queryVars => moduleVars' = moduleVars
    /\ \A q, o \in Queries :
          q # o /\ QueryState(q)' # QueryState(q) => QueryState(o)' = QueryState(o)

\* C13: no state persists across queries: a step of a query, succeeding or
\* failing, leaves the shared session and every other module-level variable as
\* they were and touches no other query's state, and every conversation a query
\* sends to the completion service is made of its own user message, its own
\* decision and its own tool results only.
C13_NoStateAcrossQueries == []C13_OwnMessagesOnly /\ [][C13_QueryStepFrame]_vars

\* Two queries that took different decisions await their second completions at
\* the same time, on the session the connection made.
C13_Witness ==
    \E q, o \in Queries :
        /\ q # o
        /\ pc[q] = "conclusion" /\ pc[o] = "conclusion"
        /\ assistant_msg[q] # assistant_msg[o]
        /\ session = "ClientSession" /\ phase = "serving"

\* The connection as connect_to_mcp_server leaves it on the exit stack.
Established == <<"stdio_client", "ClientSession">>

C14_Lifecycle ==
    /\ phase = "serving" => exit_stack = Established /\ released = <<>> /\ session = "ClientSession"
    /\ phase = "closed" => exit_stack = <<>> /\ released = Reverse(Established)
    /\ phase \in {"spawned", "entered", "initialized"} => \A q \in Queries : pc[q] = "idle"
    /\ \A q \in Queries :
          /\ Running(q) => phase = "serving"
          /\ listed[q] > 0 => phase \in {"serving", "closed"}

C14_Step ==
    /\ phase = "closed" => phase' = "closed" /\ queryVars' = queryVars
    /\ phase # "serving" /\ phase' = "serving" =>
          /\ phase = "initialized"
          /\ \A q \in Queries : pc[q] = "idle"
    /\ released' # released => released = <<>>
    /\ phase = "serving" /\ queryVars' # queryVars =>
          exit_stack' = exit_stack /\ released' = released

\* C14: the tool-host connection is established exactly once, before the first
\* query is handled, and released exactly once on shutdown, whatever number of
\* queries ran in between and however they ended; no query is handled after the
\* release.
C14_ConnectedOnceReleasedOnce == []C14_Lifecycle /\ [][C14_Step]_vars

\* After shutdown: one query had failed and another had answered with a tool.
C14_Witness ==
    \E q, o \in Queries :
        /\ phase = "closed"
        /\ Done(q) /\ IsFailure(result[q]) /\ listed[q] = 1
        /\ Done(o) /\ IsAnswer(result[o]) /\ ToolUsed(result[o])

\* The answer made of the content of the second completion's message.
FinalAnswer(content) ==
    IF entry = "http"
    THEN [kind |-> "ChatResponse",
          response |-> IF content.none THEN <<>> ELSE content.s,
          tool_used |-> TRUE]
    ELSE [kind |-> "str",
          text |-> <<"(Used tool)\n\n">> \o (IF content.none THEN <<"None">> ELSE content.s)]

C15_TwoCompletions ==
    \A q \in Queries :
        /\ Len(completions[q]) <= 2
        /\ Len(completions[q]) >= 1 => completions[q][1].tool_choice = "auto"
        /\ Len(completions[q]) = 2 =>
              /\ completions[q][2].tool_choice = "none"
              /\ completions[q][2].tools = completions[q][1].tools
              /\ completions[q][2].tools # <<>>
        /\ pc[q] = "conclusion" => Len(completions[q]) = 2
        /\ Len(invoked[q]) <= (IF RequestsTools(q) THEN Len(ToolCalls(q)) ELSE 0)
        /\ final_response[q] # NoResponse =>
              /\ Done(q)
              /\ Len(completions[q]) = 2
              /\ result[q] = FinalAnswer(final_response[q].content)
              /\ Len(invoked[q]) = Len(ToolCalls(q))
              /\ Len(replies[q]) = Len(invoked[q])

C15_Terminated ==
    \A q \in Queries :
        final_response[q] # NoResponse => QueryState(q)' = QueryState(q)

\* C15: a query makes at most two completion calls: the second is made with
\* tool_choice "none" and the tool declarations of the first, the content of
\* its message is the answer, and tool calls that message still carries are not
\* executed: the query is over, with one request per tool call of the decision.
C15_AtMostTwoCompletions == []C15_TwoCompletions /\ [][C15_Terminated]_vars

\* The second completion's message carried a tool call, and the query is over
\* with the two tool calls of its decision executed and no other.
C15_Witness ==
    \E q \in Queries :
        /\ Done(q)
        /\ final_response[q] # NoResponse
        /\ final_response[q].tool_calls.list # <<>>
        /\ Len(ToolCalls(q)) = 2 /\ Len(invoked[q]) = 2
        /\ ToolUsed(result[q])

\* The positions of the segments of a reply that carry text.
TextSegments(reply) == {i \in 1..Len(reply.content) : reply.content[i].type = "text"}

Min(S) == CHOOSE i \in S : \A j \in S : i <= j

\* C16 as stated: the content of each tool message is the first text segment
\* of the tool host's reply to that call, and only a reply with no text segment
\* fails the query, which then makes no second completion call.
C16_FirstTextSegment ==
    \A q \in Queries : \A k \in 1..Len(replies[q]) :
        LET reply == replies[q][k]
        IN  ~reply.raises =>
              IF TextSegments(reply) = {}
              THEN /\ IsFailure(result[q])
                   /\ Len(completions[q]) < 2
              ELSE /\ Len(ToolMessages(q)) >= k
                   /\ ToolMessages(q)[k].content =
                         Str(reply.content[Min(TextSegments(reply))].text)

\* The number of numbered result items in a text web_search returned.
Items(text) == Cardinality({i \in 1..Len(text) : text[i] = "item"})

\* C17 as stated: whatever the search provider answers, the summary web_search
\* returns lists at most 3 numbered result items.
C17_AtMostTopResults ==
    \A q \in Queries : \A k \in 1..Len(replies[q]) :
        replies[q][k].search = "ok" =>
            Items(replies[q][k].content[1].text) <= TopResults

\* The requests query q has sent by the time it is at `at`.
SentBy(q, at) ==
    CASE at \in {"", "get_mcp_tools"} -> TRUE
      [] at = "list_tools" -> completions[q] = <<>> /\ invoked[q] = <<>>
      [] at = "decision" -> Len(completions[q]) = 1 /\ invoked[q] = <<>>
      [] at \in {"for tool_call", "json.loads"} ->
            Len(completions[q]) = 1 /\ Len(invoked[q]) = Len(replies[q])
      [] at \in {"call_tool", "content[0].text"} ->
            Len(completions[q]) = 1 /\ Len(invoked[q]) = Len(replies[q])
      [] at = "conclusion" -> Len(completions[q]) = 2

\* C18: nothing is retried within a query: the tool list is fetched at most
\* once, the decision and the conclusion are requested at most once each, and
\* each tool call of the decision is invoked at most once, the k-th request
\* being for the k-th tool call; a query that failed is over and has sent
\* nothing beyond the request that failed.
C18_NothingRetried ==
    \A q \in Queries :
        /\ listed[q] <= 1
        /\ Cardinality({k \in 1..Len(completions[q]) : completions[q][k].tool_choice = "auto"}) <= 1
        /\ Cardinality({k \in 1..Len(completions[q]) : completions[q][k].tool_choice = "none"}) <= 1
        /\ Len(invoked[q]) <= (IF RequestsTools(q) THEN Len(ToolCalls(q)) ELSE 0)
        /\ \A k \in 1..Len(invoked[q]) : invoked[q][k] = CallToolRequest(ToolCalls(q)[k])
        /\ Len(replies[q]) <= Len(invoked[q])
        /\ raised[q].at # "" =>
              /\ Done(q)
              /\ IsFailure(result[q])
              /\ SentBy(q, raised[q].at)
              /\ raised[q].at # "get_mcp_tools" => listed[q] = 1

\* The first of two tool calls failed: the query is over after one tool list,
\* one completion and one tool request.
C18_Witness ==
    \E q \in Queries :
        /\ Done(q)
        /\ raised[q].at = "call_tool"
        /\ Len(ToolCalls(q)) = 2
        /\ listed[q] = 1 /\ Len(completions[q]) = 1 /\ Len(invoked[q]) = 1

\* C19 as stated: when establishing the connection fails, everything entered
\* on the exit stack has been released again, in either program, and no query
\* is handled.
C19_PartialStartupReleased ==
    phase = "failed" =>
        /\ exit_stack = <<>>
        /\ \A q \in Queries : pc[q] = "idle"

====
